---- MODULE Spec2Model ----
(***************************************************************************)
(* A model of the bounded-concurrency schedulers of the repository:        *)
(*   RequestPool            (src/unnamed/part_000)                          *)
(*   AsyncTaskPool, addTask/runTasks/waitForAll                             *)
(*                          (src/PriorityEventEmitter.ts, lines 117-208)    *)
(*   AsyncTaskPool, add/runNext/awaitAll                                    *)
(*                          (src/PriorityEventEmitter.ts, lines 212-287)    *)
(*   runConcurrently        (src/RunConcurrently.ts)                        *)
(*   paralleTask            (src/src/utils/并发任务.ts)                      *)
(*   retryWrapper           (src/unnamed/part_001, lines 173-190)           *)
(* and of the task executor of src/unnamed/part_001 (runTasks,             *)
(* retryFailedTasks, getTaskStats), whose tasks are functions f = 1, 2, ... *)
(* that may occur several times in one array, and of the                   *)
(* PriorityEventEmitter of src/unnamed/part_002 (the same class is in      *)
(* src/PriorityEventEmitter.ts, lines 11-70).                              *)
(*                                                                         *)
(* JavaScript runs one job at a time: every action below is one job (a     *)
(* synchronous call of the API, or one promise reaction), so it is atomic. *)
(* A task is identified by the order of its submission (RequestPool,       *)
(* AsyncTaskPool: 1, 2, ...) or by its index in the array (runConcurrently, *)
(* paralleTask: 0, 1, ...); task t fulfils with the value t and rejects    *)
(* with the error -(t+1).  Whether an execution fulfils or rejects is the  *)
(* environment's choice, made when it settles.                             *)
(***************************************************************************)
EXTENDS Integers, Sequences, FiniteSets

\* ------------------------------------------------------------------ bounds
\* Largest number of tasks submitted to a pool, or length of a task array.
MaxTasks == 3
\* Largest concurrency bound handed to a scheduler (0 is handed in as well).
MaxCap == 2
\* Largest number of task executions that reject in one run of a retrying pool.
MaxFails == 1
\* Largest number of waitForAll()/awaitAll() calls on one pool.
MaxWaiters == 2
\* The same two bounds for the runs that follow one task through many retries.
RetryTasks == 2
RetryFails == 3
\* The task executor: how many different task functions there are, and the
\* most calls (retryFailedTasks, executeTasks, getTaskStats) the caller
\* makes on the state that runTasks returned.
MaxFns == 2
MaxCallerCalls == 2
\* The event emitter: the most on() and emit() calls on one emitter, and
\* the events, listener functions and priorities they are made with.
MaxOns == 3
MaxEmits == 2
Events == {"404", "500"}
Listeners == {"f", "g"}
Priorities == {0, 5}

VARIABLES
    prog,   \* which of the repository's programs this behaviour runs
    env,    \* what the caller and the tasks do at most in this behaviour
    rp,     \* the RequestPool object
    p1,     \* the AsyncTaskPool object (addTask / runTasks / waitForAll)
    p2,     \* the AsyncTaskPool object (add / runNext / awaitAll)
    rc,     \* one call of runConcurrently
    pt,     \* one call of paralleTask
    rw,     \* one call of retryWrapper
    ex,     \* the task executor: its heap of Maps and the call in progress
    pe      \* the PriorityEventEmitter object

vars == <<prog, env, rp, p1, p2, rc, pt, rw, ex, pe>>

\* The object of a program that this behaviour does not run.
Absent == [absent |-> TRUE]

\* ----------------------------------------------------------------- helpers
\* The value task t fulfils with, and the error it rejects with.
Val(t) == t
Err(t) == 0 - (t + 1)

\* Array.prototype.push and the array left by Array.prototype.shift.
Push(arr, x) == Append(arr, x)
Shifted(arr) == Tail(arr)

\* The set of the elements of a sequence.
Range(s) == {s[i] : i \in 1..Len(s)}

Min(a, b) == IF a < b THEN a ELSE b

\* ============================================================ RequestPool
\* new RequestPool(maxConcurrent): the constructor stores any number.
\* request[t]: "none" (not added), "queued", "running", "settled";
\* promise[t]: the promise add() returned for t; starts: the requests in the
\* order in which their execution began (the '请求开始' log lines).
RequestPool(maxConcurrent) ==
    [maxConcurrent |-> maxConcurrent,
     activeCount   |-> 0,
     requestQueue  |-> <<>>,
     taskCounter   |-> 0,
     request       |-> [t \in 1..MaxTasks |-> "none"],
     promise       |-> [t \in 1..MaxTasks |-> [state |-> "none", value |-> 0, settled |-> 0]],
     starts        |-> <<>>]

\* The task closure up to its await: activeCount++ and the call of request().
RP_taskBegin(s, t) ==
    [s EXCEPT !.activeCount = s.activeCount + 1,
              !.request[t]  = "running",
              !.starts      = Append(s.starts, t)]

\* runNext with the wrong end of the queue (pop instead of shift).
RP_runNext_pop(s) ==
    IF Len(s.requestQueue) > 0 /\ s.activeCount < s.maxConcurrent
    THEN RP_taskBegin([s EXCEPT !.requestQueue = SubSeq(s.requestQueue, 1, Len(s.requestQueue) - 1)],
                      s.requestQueue[Len(s.requestQueue)])
    ELSE s

\* runNext(): start the head of the queue when a slot is free.
RP_runNext(s) ==
    IF Len(s.requestQueue) > 0 /\ s.activeCount < s.maxConcurrent
    THEN RP_taskBegin([s EXCEPT !.requestQueue = Shifted(s.requestQueue)],
                      Head(s.requestQueue))
    ELSE s

\* add() that never queues.
RP_add_nolimit(s) ==
    LET taskId == s.taskCounter + 1
        s1 == [s EXCEPT !.taskCounter = taskId,
                        !.promise[taskId] = [state |-> "pending", value |-> 0, settled |-> 0]]
    IN RP_taskBegin(s1, taskId)

\* add(request): number the task, then run it at once or queue it.
RP_add(s) ==
    LET taskId == s.taskCounter + 1
        s1 == [s EXCEPT !.taskCounter = taskId,
                        !.promise[taskId] = [state |-> "pending", value |-> 0, settled |-> 0]]
    IN IF s1.activeCount < s1.maxConcurrent
       THEN RP_taskBegin(s1, taskId)
       ELSE [s1 EXCEPT !.requestQueue = Push(s1.requestQueue, taskId),
                       !.request[taskId] = "queued"]

\* A task closure whose catch block swallows the error: the promise of
\* add() is left pending.
RP_taskEnd_swallow(s, t, ok) ==
    LET s1 == IF ok
              THEN [s EXCEPT !.promise[t] = [state   |-> "resolved",
                                             value   |-> Val(t),
                                             settled |-> s.promise[t].settled + 1],
                             !.request[t] = "settled"]
              ELSE [s EXCEPT !.request[t] = "settled"]
        s2 == [s1 EXCEPT !.activeCount = s1.activeCount - 1]
    IN RP_runNext(s2)

\* A finally block that frees the slot and does not call runNext().
RP_taskEnd_norun(s, t, ok) ==
    [s EXCEPT !.promise[t] = [state   |-> IF ok THEN "resolved" ELSE "rejected",
                              value   |-> IF ok THEN Val(t) ELSE Err(t),
                              settled |-> s.promise[t].settled + 1],
              !.request[t] = "settled",
              !.activeCount = s.activeCount - 1]

\* The task closure with the decrement in the try block, not in finally.
RP_taskEnd_leak(s, t, ok) ==
    LET s1 == [s EXCEPT !.promise[t] = [state   |-> IF ok THEN "resolved" ELSE "rejected",
                                        value   |-> IF ok THEN Val(t) ELSE Err(t),
                                        settled |-> s.promise[t].settled + 1],
                        !.request[t] = "settled"]
        s2 == IF ok THEN [s1 EXCEPT !.activeCount = s1.activeCount - 1] ELSE s1
    IN RP_runNext(s2)

\* The task closure after its await: resolve or reject the promise of add(),
\* then the finally block: activeCount-- and runNext().
RP_taskEnd(s, t, ok) ==
    LET s1 == [s EXCEPT !.promise[t] = [state   |-> IF ok THEN "resolved" ELSE "rejected",
                                        value   |-> IF ok THEN Val(t) ELSE Err(t),
                                        settled |-> s.promise[t].settled + 1],
                        !.request[t] = "settled"]
        s2 == [s1 EXCEPT !.activeCount = s1.activeCount - 1]
    IN RP_runNext(s2)

RP_Add ==
    /\ prog = "RequestPool"
    /\ rp.taskCounter < env.tasks
    /\ rp' = RP_add(rp)
    /\ UNCHANGED <<prog, env, p1, p2, rc, pt, rw, ex, pe>>

RP_Settle ==
    /\ prog = "RequestPool"
    /\ \E t \in 1..MaxTasks, ok \in BOOLEAN :
          /\ rp.request[t] = "running"
          /\ rp' = RP_taskEnd(rp, t, ok)
    /\ UNCHANGED <<prog, env, p1, p2, rc, pt, rw, ex, pe>>

\* ================================== AsyncTaskPool (addTask / runTasks)
\* new AsyncTaskPool(maxConcurrency): throws when maxConcurrency < 1.
\* constructed: the constructor returned; task[t]: "none", "waiting",
\* "running", "done"; starts: the tasks in the order in which their
\* executions began; execs[t]: how many executions of t began; fails: how
\* many executions rejected; lastAdd: how the last addTask call ended;
\* waiters: how many times waitForAll() was called (every call returns the
\* one completionPromise, whose state is completion; settled: how often it
\* was resolved).
P1_new(maxConcurrency) ==
    [constructed    |-> ~(maxConcurrency < 1),
     maxConcurrency |-> maxConcurrency,
     waitingTasks   |-> <<>>,
     runningTasks   |-> 0,
     results        |-> <<>>,
     allCompleted   |-> FALSE,
     completion     |-> [state |-> "pending", value |-> <<>>, settled |-> 0],
     submitted      |-> 0,
     task           |-> [t \in 1..MaxTasks |-> "none"],
     execs          |-> [t \in 1..MaxTasks |-> 0],
     starts         |-> <<>>,
     fails          |-> 0,
     lastAdd        |-> "none",
     waiters        |-> 0]

\* One pass of the while loop of runTasks, up to its await: when a slot is
\* free and a task waits, shift it, count it and call it.  The worker then
\* sleeps in the await, or (condition false) returns.
P1_runTasks(s) ==
    IF s.runningTasks < s.maxConcurrency /\ Len(s.waitingTasks) > 0
    THEN LET task == Head(s.waitingTasks)
         IN [s EXCEPT !.waitingTasks = Shifted(s.waitingTasks),
                      !.runningTasks = s.runningTasks + 1,
                      !.task[task]   = "running",
                      !.execs[task]  = s.execs[task] + 1,
                      !.starts       = Append(s.starts, task)]
    ELSE s

\* checkAllCompleted(): resolve the completion promise on the first drain.
P1_checkAllCompleted(s) ==
    IF s.runningTasks = 0 /\ Len(s.waitingTasks) = 0 /\ ~s.allCompleted
    THEN [s EXCEPT !.allCompleted = TRUE,
                   !.completion   = [state   |-> "resolved",
                                      value   |-> s.results,
                                      settled |-> s.completion.settled + 1]]
    ELSE s

\* A catch block that also records the error as a result.
P1_taskSettled_record(s, t, ok) ==
    LET s1 == IF ok
              THEN [s EXCEPT !.results = Push(s.results, Val(t)),
                             !.task[t] = "done"]
              ELSE [s EXCEPT !.results      = Push(s.results, Err(t)),
                             !.waitingTasks = Push(s.waitingTasks, t),
                             !.task[t]      = "waiting",
                             !.fails        = s.fails + 1]
        s2 == [s1 EXCEPT !.runningTasks = s1.runningTasks - 1]
    IN P1_runTasks(P1_checkAllCompleted(s2))

\* A catch block that puts the failed task back at the head of the queue
\* (unshift instead of push).
P1_taskSettled_unshift(s, t, ok) ==
    LET s1 == IF ok
              THEN [s EXCEPT !.results = Push(s.results, Val(t)),
                             !.task[t] = "done"]
              ELSE [s EXCEPT !.waitingTasks = <<t>> \o s.waitingTasks,
                             !.task[t]      = "waiting",
                             !.fails        = s.fails + 1]
        s2 == [s1 EXCEPT !.runningTasks = s1.runningTasks - 1]
    IN P1_runTasks(P1_checkAllCompleted(s2))

\* The rest of the loop body of runTasks once `await task()` has settled:
\* try (results.push) or catch (waitingTasks.push(task)), finally
\* (runningTasks--, checkAllCompleted()), then the next pass of the loop.
P1_taskSettled(s, t, ok) ==
    LET s1 == IF ok
              THEN [s EXCEPT !.results = Push(s.results, Val(t)),
                             !.task[t] = "done"]
              ELSE [s EXCEPT !.waitingTasks = Push(s.waitingTasks, t),
                             !.task[t]      = "waiting",
                             !.fails        = s.fails + 1]
        s2 == [s1 EXCEPT !.runningTasks = s1.runningTasks - 1]
    IN P1_runTasks(P1_checkAllCompleted(s2))

\* addTask(task): throws once all tasks completed; else queue and runTasks().
P1_addTask(s) ==
    IF s.allCompleted
    THEN [s EXCEPT !.lastAdd = "threw"]
    ELSE LET t == s.submitted + 1
         IN [P1_runTasks([s EXCEPT !.waitingTasks = Push(s.waitingTasks, t),
                                   !.submitted    = t,
                                   !.task[t]      = "waiting"])
             EXCEPT !.lastAdd = "ok"]

\* waitForAll(): hands out completionPromise.
P1_waitForAll(s) == [s EXCEPT !.waiters = s.waiters + 1]

P1_AddTask ==
    /\ prog = "AsyncTaskPool1"
    /\ p1.constructed
    /\ p1.submitted < env.tasks
    /\ p1' = P1_addTask(p1)
    /\ UNCHANGED <<prog, env, rp, p2, rc, pt, rw, ex, pe>>

P1_Settle ==
    /\ prog = "AsyncTaskPool1"
    /\ \E t \in 1..MaxTasks, ok \in BOOLEAN :
          /\ p1.task[t] = "running"
          /\ ok \/ p1.fails < env.fails
          /\ p1' = P1_taskSettled(p1, t, ok)
    /\ UNCHANGED <<prog, env, rp, p2, rc, pt, rw, ex, pe>>

P1_WaitForAll ==
    /\ prog = "AsyncTaskPool1"
    /\ p1.constructed
    /\ p1.waiters < env.waits
    /\ p1' = P1_waitForAll(p1)
    /\ UNCHANGED <<prog, env, rp, p2, rc, pt, rw, ex, pe>>

\* ===================================== AsyncTaskPool (add / runNext)
\* new AsyncTaskPool(concurrency): stores any number.
\* task[t], starts, execs, fails, lastAdd as above; finalizing: the tasks
\* one of whose executions has run its then/catch reaction and not yet its
\* finally reaction; waiter[w]: the promise the w-th awaitAll() returned
\* (state, value: whether it is fulfilled, and with what; resolved: how
\* often the call was answered, by its queued resolver or by its own
\* return; queued: the call queued a resolver).  awaitAll is an async
\* function: the promise it returns is fulfilled at once when it returns
\* this.results, and only follows the new Promise when it returns that one.
P2_new(concurrency) ==
    [concurrency      |-> concurrency,
     runningCount     |-> 0,
     taskQueue        |-> <<>>,
     results          |-> <<>>,
     finished         |-> FALSE,
     pendingResolvers |-> <<>>,
     submitted        |-> 0,
     task             |-> [t \in 1..MaxTasks |-> "none"],
     execs            |-> [t \in 1..MaxTasks |-> 0],
     finalizing       |-> {},
     starts           |-> <<>>,
     fails            |-> 0,
     lastAdd          |-> "none",
     waitCalls        |-> 0,
     waiter           |-> [w \in 1..MaxWaiters |-> [state |-> "none", value |-> <<>>, resolved |-> 0, queued |-> FALSE]]]

\* runNext(): while a slot is free and a task waits, shift it, count it and
\* call it (its reactions run in later jobs).
RECURSIVE P2_runNext(_)
P2_runNext(s) ==
    IF s.runningCount < s.concurrency /\ Len(s.taskQueue) > 0
    THEN LET task == Head(s.taskQueue)
         IN P2_runNext([s EXCEPT !.taskQueue    = Shifted(s.taskQueue),
                                 !.runningCount = s.runningCount + 1,
                                 !.task[task]   = "running",
                                 !.execs[task]  = s.execs[task] + 1,
                                 !.starts       = Append(s.starts, task)])
    ELSE s

\* The resolver awaitAll() queued for waiter w: resolve(this.results) on
\* the new Promise; the promise awaitAll() returned is fulfilled in a later
\* job.
P2_resolve(s, w) ==
    [s EXCEPT !.waiter[w].resolved = s.waiter[w].resolved + 1]

\* The promise awaitAll() returned to waiter w takes the value of the new
\* Promise, the results array.
P2_follow(s, w) ==
    [s EXCEPT !.waiter[w].state = "resolved",
              !.waiter[w].value = s.results]

\* A forEach that stops after the first resolver.
P2_resolveAll_first(s, resolvers) ==
    IF resolvers = <<>> THEN s ELSE P2_resolve(s, Head(resolvers))

\* pendingResolvers.forEach(resolve => resolve())
RECURSIVE P2_resolveAll(_, _)
P2_resolveAll(s, resolvers) ==
    IF resolvers = <<>> THEN s
    ELSE P2_resolveAll(P2_resolve(s, Head(resolvers)), Tail(resolvers))

\* checkIfDone() that does not look at the running count.
P2_checkIfDone_early(s) ==
    IF Len(s.taskQueue) = 0
    THEN [P2_resolveAll(s, s.pendingResolvers)
          EXCEPT !.finished = TRUE, !.pendingResolvers = <<>>]
    ELSE s

\* checkIfDone(): on a drain, finish the pool and run the pending resolvers.
P2_checkIfDone(s) ==
    IF s.runningCount = 0 /\ Len(s.taskQueue) = 0
    THEN [P2_resolveAll(s, s.pendingResolvers)
          EXCEPT !.finished = TRUE, !.pendingResolvers = <<>>]
    ELSE s

\* The .then reaction of a fulfilled execution of t: results.push(res).
P2_then(s, t) ==
    [s EXCEPT !.results    = Push(s.results, Val(t)),
              !.task[t]    = "done",
              !.finalizing = s.finalizing \cup {t}]

\* The .catch reaction of a rejected execution of t: taskQueue.push(task).
P2_catch(s, t) ==
    [s EXCEPT !.taskQueue  = Push(s.taskQueue, t),
              !.task[t]    = "waiting",
              !.fails      = s.fails + 1,
              !.finalizing = s.finalizing \cup {t}]

\* The .finally reaction: runningCount--, runNext(), checkIfDone().
P2_finally(s, t) ==
    LET s1 == [s EXCEPT !.runningCount = s.runningCount - 1,
                        !.finalizing   = s.finalizing \ {t}]
    IN P2_checkIfDone(P2_runNext(s1))

\* add(task): throws once the pool finished; else queue and runNext().
P2_add(s) ==
    IF s.finished
    THEN [s EXCEPT !.lastAdd = "threw"]
    ELSE LET t == s.submitted + 1
         IN [P2_runNext([s EXCEPT !.taskQueue = Push(s.taskQueue, t),
                                  !.submitted = t,
                                  !.task[t]   = "waiting"])
             EXCEPT !.lastAdd = "ok"]

\* awaitAll() without the finished test: it always queues a resolver.
P2_awaitAll_queue(s) ==
    LET w  == s.waitCalls + 1
        s1 == [s EXCEPT !.waitCalls = w]
    IN [s1 EXCEPT !.waiter[w] = [state |-> "pending", value |-> <<>>, resolved |-> 0, queued |-> TRUE],
                  !.pendingResolvers = Push(s1.pendingResolvers, w)]

\* awaitAll(): the results at once when finished, else a queued resolver.
P2_awaitAll(s) ==
    LET w  == s.waitCalls + 1
        s1 == [s EXCEPT !.waitCalls = w]
    IN IF s1.finished
       THEN [s1 EXCEPT !.waiter[w] = [state |-> "resolved", value |-> s1.results, resolved |-> 1, queued |-> FALSE]]
       ELSE [s1 EXCEPT !.waiter[w] = [state |-> "pending", value |-> <<>>, resolved |-> 0, queued |-> TRUE],
                       !.pendingResolvers = Push(s1.pendingResolvers, w)]

P2_Add ==
    /\ prog = "AsyncTaskPool2"
    /\ p2.submitted < env.tasks
    /\ p2' = P2_add(p2)
    /\ UNCHANGED <<prog, env, rp, p1, rc, pt, rw, ex, pe>>

\* An execution of t fulfils: the then reaction runs.  (The finally reaction
\* of an execution is queued by its catch reaction, hence before any later
\* execution of the same task is even called: it runs before that execution
\* can settle, which is the guard on finalizing here and in P2_Catch.)
P2_Then ==
    /\ prog = "AsyncTaskPool2"
    /\ \E t \in 1..MaxTasks :
          /\ p2.task[t] = "running"
          /\ t \notin p2.finalizing
          /\ p2' = P2_then(p2, t)
    /\ UNCHANGED <<prog, env, rp, p1, rc, pt, rw, ex, pe>>

\* An execution of t rejects: the catch reaction runs.
P2_Catch ==
    /\ prog = "AsyncTaskPool2"
    /\ \E t \in 1..MaxTasks :
          /\ p2.task[t] = "running"
          /\ t \notin p2.finalizing
          /\ p2.fails < env.fails
          /\ p2' = P2_catch(p2, t)
    /\ UNCHANGED <<prog, env, rp, p1, rc, pt, rw, ex, pe>>

P2_Finally ==
    /\ prog = "AsyncTaskPool2"
    /\ \E t \in p2.finalizing : p2' = P2_finally(p2, t)
    /\ UNCHANGED <<prog, env, rp, p1, rc, pt, rw, ex, pe>>

\* The job in which the promise of the first waiter whose resolver has run
\* is fulfilled (these jobs run in the order of the awaitAll() calls); no
\* code of the pool runs in it.
P2_Follow ==
    /\ prog = "AsyncTaskPool2"
    /\ \E w \in 1..MaxWaiters :
          /\ p2.waiter[w].state = "pending" /\ p2.waiter[w].resolved > 0
          /\ \A v \in 1..(w - 1) :
                ~(p2.waiter[v].state = "pending" /\ p2.waiter[v].resolved > 0)
          /\ p2' = P2_follow(p2, w)
    /\ UNCHANGED <<prog, env, rp, p1, rc, pt, rw, ex, pe>>

P2_AwaitAll ==
    /\ prog = "AsyncTaskPool2"
    /\ p2.waitCalls < env.waits
    /\ p2' = P2_awaitAll(p2)
    /\ UNCHANGED <<prog, env, rp, p1, rc, pt, rw, ex, pe>>

\* ========================================================= runConcurrently
\* A hole of a JavaScript array (an index below length never assigned).
Hole == [hole |-> TRUE]

\* arr[index] = x on a JavaScript array (index from 0): the array grows, with
\* holes, when index is beyond its end.
RECURSIVE ArraySet(_, _, _)
ArraySet(arr, index, x) ==
    IF index < Len(arr) THEN [arr EXCEPT ![index + 1] = x]
    ELSE IF index = Len(arr) THEN Append(arr, x)
    ELSE ArraySet(Append(arr, Hole), index, x)

\* The arguments of a call not yet made.  tasks: the length of the array;
\* task[i]: "none", "running", "fulfilled", "rejected"; worker[w]: the w-th
\* chain of next() calls: "none", "task" (awaiting tasks[index] in runTask),
\* "next" (runTask returned, the await in next() not yet resumed), "done";
\* starts: the indices in the order in which the tasks were called.
RC_args(tasks, maxConcurrent) ==
    [tasks         |-> tasks,
     maxConcurrent |-> maxConcurrent,
     promise       |-> [state |-> "none", value |-> <<>>],
     results       |-> <<>>,
     taskIndex     |-> 0,
     task          |-> [i \in 0..(MaxTasks - 1) |-> "none"],
     worker        |-> [w \in 1..MaxTasks |-> [pc |-> "none", index |-> 0]],
     starts        |-> <<>>]

\* next() that reads taskIndex and does not advance it.
RC_next_stale(s, w) ==
    LET currentIndex == s.taskIndex
    IN IF currentIndex >= s.tasks
       THEN [s EXCEPT !.worker[w] = [pc |-> "done", index |-> 0]]
       ELSE [s EXCEPT !.worker[w] = [pc |-> "task", index |-> currentIndex],
                      !.task[currentIndex] = "running",
                      !.starts = Append(s.starts, currentIndex)]

\* next() of worker w, up to the await inside runTask.
RC_next(s, w) ==
    LET currentIndex == s.taskIndex
        s1 == [s EXCEPT !.taskIndex = s.taskIndex + 1]
    IN IF currentIndex >= s1.tasks
       THEN [s1 EXCEPT !.worker[w] = [pc |-> "done", index |-> 0]]
       ELSE [s1 EXCEPT !.worker[w] = [pc |-> "task", index |-> currentIndex],
                       !.task[currentIndex] = "running",
                       !.starts = Append(s1.starts, currentIndex)]

\* Array.from({length: k}, () => next()): k chains, begun one after another.
RECURSIVE RC_spawn(_, _, _)
RC_spawn(s, w, k) ==
    IF w > k THEN s ELSE RC_spawn(RC_next(s, w), w + 1, k)

\* The call with one chain per task, whatever maxConcurrent.
RC_call_all(s) ==
    IF s.maxConcurrent < 1
    THEN [s EXCEPT !.promise = [state |-> "rejected", value |-> "maxConcurrent must be greater than 0"]]
    ELSE RC_spawn([s EXCEPT !.promise = [state |-> "pending", value |-> <<>>]],
                  1, s.tasks)

\* The call itself: the argument check, then the initial chains.
RC_call(s) ==
    IF s.maxConcurrent < 1
    THEN [s EXCEPT !.promise = [state |-> "rejected", value |-> "maxConcurrent must be greater than 0"]]
    ELSE RC_spawn([s EXCEPT !.promise = [state |-> "pending", value |-> <<>>]],
                  1, Min(s.maxConcurrent, s.tasks))

\* runTask that records every outcome as a success.
RC_runTaskSettled_allok(s, w, ok) ==
    LET index == s.worker[w].index
    IN [s EXCEPT !.results = ArraySet(s.results, index, [success |-> TRUE, data |-> Val(index)]),
                 !.task[index] = IF ok THEN "fulfilled" ELSE "rejected",
                 !.worker[w].pc = "next"]

\* runTask once `await task()` has settled: results[index] = ...
RC_runTaskSettled(s, w, ok) ==
    LET index == s.worker[w].index
        entry == IF ok THEN [success |-> TRUE, data |-> Val(index)]
                       ELSE [success |-> FALSE, error |-> Err(index)]
    IN [s EXCEPT !.results = ArraySet(s.results, index, entry),
                 !.task[index] = IF ok THEN "fulfilled" ELSE "rejected",
                 !.worker[w].pc = "next"]

\* await Promise.all(initialTasks); return results
RC_return(s) == [s EXCEPT !.promise = [state |-> "resolved", value |-> s.results]]

\* How many tasks have been called and have not settled.
RC_inFlight(s) == Cardinality({i \in 0..(MaxTasks - 1) : s.task[i] = "running"})

RC_Call ==
    /\ prog = "runConcurrently"
    /\ rc.promise.state = "none"
    /\ rc' = RC_call(rc)
    /\ UNCHANGED <<prog, env, rp, p1, p2, pt, rw, ex, pe>>

RC_TaskSettled ==
    /\ prog = "runConcurrently"
    /\ \E w \in 1..MaxTasks, ok \in BOOLEAN :
          /\ rc.worker[w].pc = "task"
          /\ rc' = RC_runTaskSettled(rc, w, ok)
    /\ UNCHANGED <<prog, env, rp, p1, p2, pt, rw, ex, pe>>

RC_Next ==
    /\ prog = "runConcurrently"
    /\ \E w \in 1..MaxTasks :
          /\ rc.worker[w].pc = "next"
          /\ rc' = RC_next(rc, w)
    /\ UNCHANGED <<prog, env, rp, p1, p2, pt, rw, ex, pe>>

RC_Return ==
    /\ prog = "runConcurrently"
    /\ rc.promise.state = "pending"
    /\ \A w \in 1..MaxTasks : rc.worker[w].pc \in {"none", "done"}
    /\ rc' = RC_return(rc)
    /\ UNCHANGED <<prog, env, rp, p1, p2, pt, rw, ex, pe>>

\* ============================================================= paralleTask
\* The arguments of a call not yet made.  task[i] as above.
PT_args(tasks, parallelCount) ==
    [tasks         |-> tasks,
     parallelCount |-> parallelCount,
     promise       |-> [state |-> "none", value |-> ""],
     nextIndex     |-> 0,
     finishCount   |-> 0,
     task          |-> [i \in 0..(MaxTasks - 1) |-> "none"],
     starts        |-> <<>>]

\* _run(), up to the call of the task.
PT_run(s) ==
    LET task == s.nextIndex
    IN [s EXCEPT !.nextIndex  = s.nextIndex + 1,
                 !.task[task] = "running",
                 !.starts     = Append(s.starts, task)]

\* The loop without its parallelCount test.
RECURSIVE PT_loop_all(_, _)
PT_loop_all(s, i) ==
    IF i < s.tasks THEN PT_loop_all(PT_run(s), i + 1) ELSE s

\* for (let i = 0; i < parallelCount && i < tasks.length; i++) _run()
RECURSIVE PT_loop(_, _)
PT_loop(s, i) ==
    IF i < s.parallelCount /\ i < s.tasks THEN PT_loop(PT_run(s), i + 1) ELSE s

\* The executor of the returned promise.
PT_call(s) ==
    IF s.tasks = 0
    THEN [s EXCEPT !.promise = [state |-> "resolved", value |-> "empty"]]
    ELSE PT_loop([s EXCEPT !.promise = [state |-> "pending", value |-> ""]], 0)

\* The reaction _run registers with task().then(...): task i fulfilled.
PT_then(s, i) ==
    LET s1 == [s EXCEPT !.finishCount = s.finishCount + 1,
                        !.task[i]     = "fulfilled"]
    IN IF s1.nextIndex < s1.tasks THEN PT_run(s1)
       ELSE IF s1.finishCount = s1.tasks
            THEN [s1 EXCEPT !.promise = [state |-> "resolved", value |-> "all done"]]
            ELSE s1

\* Task i rejected: _run registered no reaction for that.
PT_rejected(s, i) == [s EXCEPT !.task[i] = "rejected"]

PT_inFlight(s) == Cardinality({i \in 0..(MaxTasks - 1) : s.task[i] = "running"})

PT_Call ==
    /\ prog = "paralleTask"
    /\ pt.promise.state = "none"
    /\ pt' = PT_call(pt)
    /\ UNCHANGED <<prog, env, rp, p1, p2, rc, rw, ex, pe>>

PT_Then ==
    /\ prog = "paralleTask"
    /\ \E i \in 0..(MaxTasks - 1) :
          /\ pt.task[i] = "running"
          /\ pt' = PT_then(pt, i)
    /\ UNCHANGED <<prog, env, rp, p1, p2, rc, rw, ex, pe>>

PT_Rejected ==
    /\ prog = "paralleTask"
    /\ \E i \in 0..(MaxTasks - 1) :
          /\ pt.task[i] = "running"
          /\ pt' = PT_rejected(pt, i)
    /\ UNCHANGED <<prog, env, rp, p1, p2, rc, rw, ex, pe>>

\* ============================================================ retryWrapper
maxRetries == 3

\* A call not yet made.  calls: how often fn was invoked; the k-th invocation
\* fulfils with Val(k) or rejects with Err(k); outcomes: how the invocations
\* ended, in order; state: "none", "fn" (awaiting fn()), "delay" (awaiting
\* the timer), "resolved", "rejected".
RW_args ==
    [state    |-> "none",
     retries  |-> 0,
     calls    |-> 0,
     outcomes |-> <<>>,
     value    |-> 0]

\* The head of the while loop: call fn again, or fall out of the loop.
RW_loop(s) ==
    IF s.retries < maxRetries
    THEN [s EXCEPT !.state = "fn", !.calls = s.calls + 1]
    ELSE [s EXCEPT !.state = "resolved", !.value = 0]

\* The catch block that sleeps and goes round whatever the count.
RW_fnSettled_forever(s, ok) ==
    IF ok
    THEN [s EXCEPT !.state = "resolved", !.value = Val(s.calls),
                   !.outcomes = Append(s.outcomes, TRUE)]
    ELSE [s EXCEPT !.retries = s.retries + 1, !.state = "delay",
                   !.outcomes = Append(s.outcomes, FALSE)]

\* `return await fn()` settled: return its value, or the catch block.
RW_fnSettled(s, ok) ==
    IF ok
    THEN [s EXCEPT !.state = "resolved", !.value = Val(s.calls),
                   !.outcomes = Append(s.outcomes, TRUE)]
    ELSE LET s1 == [s EXCEPT !.retries = s.retries + 1,
                             !.outcomes = Append(s.outcomes, FALSE)]
         IN IF s1.retries < maxRetries
            THEN [s1 EXCEPT !.state = "delay"]
            ELSE [s1 EXCEPT !.state = "rejected", !.value = Err(s1.calls)]

RW_Call ==
    /\ prog = "retryWrapper"
    /\ rw.state = "none"
    /\ rw' = RW_loop(rw)
    /\ UNCHANGED <<prog, env, rp, p1, p2, rc, pt, ex, pe>>

RW_FnSettled ==
    /\ prog = "retryWrapper"
    /\ rw.state = "fn"
    /\ \E ok \in BOOLEAN : rw' = RW_fnSettled(rw, ok)
    /\ UNCHANGED <<prog, env, rp, p1, p2, rc, pt, ex, pe>>

\* The timer of the catch block fired.
RW_DelayDone ==
    /\ prog = "retryWrapper"
    /\ rw.state = "delay"
    /\ rw' = RW_loop(rw)
    /\ UNCHANGED <<prog, env, rp, p1, p2, rc, pt, ex, pe>>

\* =========================================================== task executor
\* A JavaScript Map: its entries <<key, value>> in the order of insertion.
MapHas(m, key) == \E i \in 1..Len(m) : m[i][1] = key

MapGet(m, key) == m[CHOOSE i \in 1..Len(m) : m[i][1] = key][2]

\* Map.prototype.set: a present key keeps its place and takes the value.
MapSet(m, key, value) ==
    IF MapHas(m, key)
    THEN [m EXCEPT ![CHOOSE i \in 1..Len(m) : m[i][1] = key] = <<key, value>>]
    ELSE Append(m, <<key, value>>)

\* new Map(entries): the entries are set one after the other.
RECURSIVE NewMap(_, _)
NewMap(m, entries) ==
    IF entries = <<>> THEN m
    ELSE NewMap(MapSet(m, Head(entries)[1], Head(entries)[2]), Tail(entries))

\* array.map(f) for the two mappings of retryFailedTasks.
Swapped(entries) == [i \in 1..Len(entries) |-> <<entries[i][2], entries[i][1]>>]
Seconds(entries) == [i \in 1..Len(entries) |-> entries[i][2]]

\* The caller's task array and what it holds of the executor.
\* heap: the Map objects, by reference (0 is no object); state: the
\* TaskExecutorState that runTasks created, two references; pending: the
\* calls (runTasks, retryFailedTasks, executeTasks) that have not returned,
\* in the order they were made, each with the function the caller called
\* (by) and the async callbacks of its executeTasks (batch), one per element
\* of its array, each with its task, its originalIndex and how its task()
\* settled; results: the array the last call to return resolved with;
\* calls: the calls that returned; retries, executes: the retryFailedTasks
\* and the executeTasks calls the caller made; stats: the objects that
\* getTaskStats returned, in the order of the calls.
EX_args(tasks) ==
    [tasks    |-> tasks,
     heap     |-> <<>>,
     state    |-> [successResults |-> 0, failedTasks |-> 0],
     pending  |-> <<>>,
     results  |-> <<>>,
     calls    |-> 0,
     retries  |-> 0,
     executes |-> 0,
     stats    |-> <<>>]

\* createTaskState(): two new empty Maps.
EX_createTaskState(s) ==
    [s EXCEPT !.heap  = s.heap \o << <<>>, <<>> >>,
              !.state = [successResults |-> Len(s.heap) + 1,
                         failedTasks    |-> Len(s.heap) + 2]]

\* executeTasks(tasks, state, taskIndices) up to the awaits: tasks.map calls
\* every callback, which looks up its originalIndex and calls its task. The
\* call, made through the function by, is pending from here on.
EX_executeTasks(s, by, tasks, taskIndices) ==
    [s EXCEPT !.pending = Append(s.pending,
                 [by    |-> by,
                  batch |-> [j \in 1..Len(tasks) |->
                                [task  |-> tasks[j],
                                 index |-> IF MapHas(taskIndices, tasks[j])
                                           THEN MapGet(taskIndices, tasks[j])
                                           ELSE j - 1,
                                 state |-> "running"]]])]

\* The callback of position j of the pending call c after its await: the
\* try or the catch block.
EX_callbackSettled(s, c, j, ok) ==
    LET cb == s.pending[c].batch[j]
    IN IF ok
       THEN [s EXCEPT !.heap[s.state.successResults] =
                          MapSet(s.heap[s.state.successResults], cb.index, Val(cb.task)),
                      !.pending[c].batch[j].state = "fulfilled"]
       ELSE [s EXCEPT !.heap[s.state.failedTasks] =
                          MapSet(s.heap[s.state.failedTasks], cb.index, cb.task),
                      !.pending[c].batch[j].state = "rejected"]

\* The Promise.all of the pending call c resolved: executeTasks resolves
\* with the results, and runTasks / retryFailedTasks return them with the
\* state.
EX_return(s, c) ==
    LET batch == s.pending[c].batch
    IN [s EXCEPT !.pending = SubSeq(s.pending, 1, c - 1)
                                 \o SubSeq(s.pending, c + 1, Len(s.pending)),
                 !.calls   = s.calls + 1,
                 !.results = [j \in 1..Len(batch) |->
                                 IF batch[j].state = "fulfilled"
                                 THEN [success |-> TRUE, index |-> batch[j].index,
                                       result |-> Val(batch[j].task)]
                                 ELSE [success |-> FALSE, index |-> batch[j].index,
                                       error |-> Err(batch[j].task)]]]

\* runTasks(tasks) up to its await.
EX_runTasks(s) == EX_executeTasks(EX_createTaskState(s), "runTasks", s.tasks, <<>>)

\* retryFailedTasks(state) up to its await.
EX_retryFailedTasks(s) ==
    LET failedTasksArray == s.heap[s.state.failedTasks]
        taskIndices      == NewMap(<<>>, Swapped(failedTasksArray))
        s1 == [s EXCEPT !.heap[s.state.failedTasks] = <<>>,
                        !.retries = s.retries + 1]
    IN EX_executeTasks(s1, "retryFailedTasks", Seconds(failedTasksArray), taskIndices)

\* A getTaskStats that hands out the Maps of the state themselves.
EX_getTaskStats_live(s) ==
    [s EXCEPT !.stats = Append(s.stats,
                 [totalSuccess   |-> Len(s.heap[s.state.successResults]),
                  totalFailed    |-> Len(s.heap[s.state.failedTasks]),
                  successResults |-> s.state.successResults,
                  failedTasks    |-> s.state.failedTasks])]

\* getTaskStats(state): the two sizes and a new Map built from each Map.
EX_getTaskStats(s) ==
    [s EXCEPT !.heap  = s.heap \o << NewMap(<<>>, s.heap[s.state.successResults]),
                                     NewMap(<<>>, s.heap[s.state.failedTasks]) >>,
              !.stats = Append(s.stats,
                 [totalSuccess   |-> Len(s.heap[s.state.successResults]),
                  totalFailed    |-> Len(s.heap[s.state.failedTasks]),
                  successResults |-> Len(s.heap) + 1,
                  failedTasks    |-> Len(s.heap) + 2])]

\* The arrays and the taskIndices a caller hands to executeTasks: no task
\* or one of the functions 1..MaxFns, and the default (empty) Map or a Map
\* of one function to the index 0 or 1.
ExecuteArrays == {<<>>} \cup {<<f>> : f \in 1..MaxFns}
ExecuteIndices == {<<>>} \cup {<< <<f, i>> >> : f \in 1..MaxFns, i \in 0..1}

\* The calls the caller has made on the state.
EX_callerCalls(s) == s.retries + s.executes + Len(s.stats)

EX_RunTasks ==
    /\ prog = "taskExecutor"
    /\ ex.state.successResults = 0
    /\ ex' = EX_runTasks(ex)
    /\ UNCHANGED <<prog, env, rp, p1, p2, rc, pt, rw, pe>>

\* The task of one callback of a pending call settles, either way.
EX_CallbackSettled ==
    /\ prog = "taskExecutor"
    /\ \E c \in 1..Len(ex.pending) :
       \E j \in 1..Len(ex.pending[c].batch), ok \in BOOLEAN :
          /\ ex.pending[c].batch[j].state = "running"
          /\ ex' = EX_callbackSettled(ex, c, j, ok)
    /\ UNCHANGED <<prog, env, rp, p1, p2, rc, pt, rw, pe>>

\* Every callback of a pending call has returned: the call returns.
EX_Return ==
    /\ prog = "taskExecutor"
    /\ \E c \in 1..Len(ex.pending) :
          /\ \A j \in 1..Len(ex.pending[c].batch) :
                ex.pending[c].batch[j].state # "running"
          /\ ex' = EX_return(ex, c)
    /\ UNCHANGED <<prog, env, rp, p1, p2, rc, pt, rw, pe>>

\* The caller, who has had the state since runTasks returned, retries,
\* between two calls or while calls on the state are pending.
EX_RetryFailedTasks ==
    /\ prog = "taskExecutor"
    /\ ex.calls >= 1
    /\ EX_callerCalls(ex) < MaxCallerCalls
    /\ ex' = EX_retryFailedTasks(ex)
    /\ UNCHANGED <<prog, env, rp, p1, p2, rc, pt, rw, pe>>

\* The caller calls the exported executeTasks on the state, with an array
\* and a taskIndices of its choice.
EX_ExecuteTasks ==
    /\ prog = "taskExecutor"
    /\ ex.calls >= 1
    /\ EX_callerCalls(ex) < MaxCallerCalls
    /\ \E tasks \in ExecuteArrays, taskIndices \in ExecuteIndices :
          ex' = EX_executeTasks([ex EXCEPT !.executes = ex.executes + 1],
                                "executeTasks", tasks, taskIndices)
    /\ UNCHANGED <<prog, env, rp, p1, p2, rc, pt, rw, pe>>

\* The caller asks for the statistics of the state, between two calls or
\* while calls are pending.
EX_GetTaskStats ==
    /\ prog = "taskExecutor"
    /\ ex.calls >= 1
    /\ EX_callerCalls(ex) < MaxCallerCalls
    /\ ex' = EX_getTaskStats(ex)
    /\ UNCHANGED <<prog, env, rp, p1, p2, rc, pt, rw, pe>>

\* ================================================== PriorityEventEmitter
\* Map.prototype.delete.
MapDelete(m, key) == SelectSeq(m, LAMBDA e : e[1] # key)

\* The place Array.prototype.sort gives x among the sorted entries, under
\* the comparator (a, b) => b.priority - a.priority: the sort is stable, so
\* x, which came later, goes behind every entry that does not compare after
\* it.
RECURSIVE SortInsert(_, _)
SortInsert(sorted, x) ==
    IF sorted = <<>> THEN <<x>>
    ELSE IF x.priority - Head(sorted).priority > 0
         THEN <<x>> \o sorted
         ELSE <<Head(sorted)>> \o SortInsert(Tail(sorted), x)

\* eventListeners.sort((a, b) => b.priority - a.priority)
RECURSIVE SortByPriority(_, _)
SortByPriority(sorted, arr) ==
    IF arr = <<>> THEN sorted
    ELSE SortByPriority(SortInsert(sorted, Head(arr)), Tail(arr))

\* new PriorityEventEmitter().  listeners: the Map from event to its array
\* of { listener, priority } objects (reg: the number of the on() call that
\* made the object); registered: the on() calls made; skipped: for every
\* emit() call made, the value its variable `skip` ended with; event and
\* invoked: what the last call on the emitter invoked, which is nothing
\* unless it was an emit(): the event emitted and the objects whose
\* listener was invoked, in that order (called: that invocation called
\* skipRemaining).
PE_new ==
    [listeners  |-> <<>>,
     registered |-> 0,
     skipped    |-> <<>>,
     event      |-> "",
     invoked    |-> <<>>]

\* on() that pushes and does not sort.
PE_on_nosort(s, event, listener, priority) ==
    LET m   == IF MapHas(s.listeners, event) THEN s.listeners
               ELSE MapSet(s.listeners, event, <<>>)
        reg == s.registered + 1
        eventListeners == Push(MapGet(m, event),
                               [listener |-> listener, priority |-> priority, reg |-> reg])
    IN [s EXCEPT !.listeners  = MapSet(m, event, eventListeners),
                 !.registered = reg,
                 !.event      = "",
                 !.invoked    = <<>>]

\* on(event, listener, priority)
PE_on(s, event, listener, priority) ==
    LET m   == IF MapHas(s.listeners, event) THEN s.listeners
               ELSE MapSet(s.listeners, event, <<>>)
        reg == s.registered + 1
        eventListeners == Push(MapGet(m, event),
                               [listener |-> listener, priority |-> priority, reg |-> reg])
    IN [s EXCEPT !.listeners  = MapSet(m, event, SortByPriority(<<>>, eventListeners)),
                 !.registered = reg,
                 !.event      = "",
                 !.invoked    = <<>>]

\* The invocation of the listener of object l, which calls skipRemaining
\* if it is one of the skippers.
PE_invoke(l, skippers) ==
    [listener |-> l.listener, priority |-> l.priority, reg |-> l.reg,
     called   |-> l.listener \in skippers]

\* The for loop of emit from position i on: break when skip is set, else
\* invoke the listener.  The result is the invocations and the final skip.
RECURSIVE PE_loop(_, _, _, _, _)
PE_loop(eventListeners, i, skip, skippers, invoked) ==
    IF i > Len(eventListeners) \/ skip THEN [invoked |-> invoked, skip |-> skip]
    ELSE PE_loop(eventListeners, i + 1, eventListeners[i].listener \in skippers,
                 skippers, Append(invoked, PE_invoke(eventListeners[i], skippers)))

\* emit(event, data), the listeners in `skippers` calling skipRemaining.
PE_emit(s, event, skippers) ==
    LET done == IF ~MapHas(s.listeners, event) THEN [invoked |-> <<>>, skip |-> FALSE]
                ELSE PE_loop(MapGet(s.listeners, event), 1, FALSE, skippers, <<>>)
    IN [s EXCEPT !.skipped = Append(s.skipped, done.skip),
                 !.event   = event,
                 !.invoked = done.invoked]

\* off(event, listener)
PE_off(s, event, listener) ==
    LET s1 == [s EXCEPT !.event = "", !.invoked = <<>>]
    IN IF ~MapHas(s.listeners, event) THEN s1
       ELSE LET filtered == SelectSeq(MapGet(s.listeners, event),
                                      LAMBDA l : l.listener # listener)
            IN IF Len(filtered) = 0
               THEN [s1 EXCEPT !.listeners = MapDelete(s.listeners, event)]
               ELSE [s1 EXCEPT !.listeners = MapSet(s.listeners, event, filtered)]

\* removeAllListeners(event)
PE_removeAllListeners(s, event) ==
    [s EXCEPT !.listeners = MapDelete(s.listeners, event),
              !.event     = "",
              !.invoked   = <<>>]

PE_On ==
    /\ prog = "PriorityEventEmitter"
    /\ pe.registered < MaxOns
    /\ \E event \in Events, listener \in Listeners, priority \in Priorities :
          pe' = PE_on(pe, event, listener, priority)
    /\ UNCHANGED <<prog, env, rp, p1, p2, rc, pt, rw, ex>>

PE_Emit ==
    /\ prog = "PriorityEventEmitter"
    /\ Len(pe.skipped) < MaxEmits
    /\ \E event \in Events, skippers \in SUBSET Listeners :
          pe' = PE_emit(pe, event, skippers)
    /\ UNCHANGED <<prog, env, rp, p1, p2, rc, pt, rw, ex>>

PE_Off ==
    /\ prog = "PriorityEventEmitter"
    /\ \E event \in Events, listener \in Listeners :
          pe' = PE_off(pe, event, listener)
    /\ UNCHANGED <<prog, env, rp, p1, p2, rc, pt, rw, ex>>

PE_RemoveAllListeners ==
    /\ prog = "PriorityEventEmitter"
    /\ \E event \in Events : pe' = PE_removeAllListeners(pe, event)
    /\ UNCHANGED <<prog, env, rp, p1, p2, rc, pt, rw, ex>>

\* ================================================================ the runs
Programs == {"RequestPool", "AsyncTaskPool1", "AsyncTaskPool2",
             "runConcurrently", "paralleTask", "retryWrapper", "taskExecutor",
             "PriorityEventEmitter"}

Pools == {"AsyncTaskPool1", "AsyncTaskPool2"}

\* The behaviours with many tasks and waiters, and those with many retries.
Wide == [tasks |-> MaxTasks, fails |-> MaxFails, waits |-> MaxWaiters]
Deep == [tasks |-> RetryTasks, fails |-> RetryFails, waits |-> 0]

\* The concurrency bounds and array lengths a program is run with.
Caps(p) == IF p \in {"retryWrapper", "taskExecutor", "PriorityEventEmitter"} THEN {0} ELSE 0..MaxCap
Lengths(p) == IF p \in {"runConcurrently", "paralleTask"} THEN 0..MaxTasks ELSE {0}
Envs(p) == IF p \in Pools THEN {Wide, Deep} ELSE {Wide}

\* The task arrays runTasks is called with: every array of at most two
\* functions, up to the names of the functions.
Arrays(p) ==
    IF p = "taskExecutor"
    THEN {<<>>, <<1>>, <<1, 1>>, <<1, 2>>}
    ELSE {<<>>}

Init ==
    \E p \in Programs :
    \E cap \in Caps(p), n \in Lengths(p), e \in Envs(p), tasks \in Arrays(p) :
        /\ prog = p
        /\ env = e
        /\ rp = IF p = "RequestPool" THEN RequestPool(cap) ELSE Absent
        /\ p1 = IF p = "AsyncTaskPool1" THEN P1_new(cap) ELSE Absent
        /\ p2 = IF p = "AsyncTaskPool2" THEN P2_new(cap) ELSE Absent
        /\ rc = IF p = "runConcurrently" THEN RC_args(n, cap) ELSE Absent
        /\ pt = IF p = "paralleTask" THEN PT_args(n, cap) ELSE Absent
        /\ rw = IF p = "retryWrapper" THEN RW_args ELSE Absent
        /\ ex = IF p = "taskExecutor" THEN EX_args(tasks) ELSE Absent
        /\ pe = IF p = "PriorityEventEmitter" THEN PE_new ELSE Absent

Next ==
    \/ RP_Add
    \/ RP_Settle
    \/ P1_AddTask
    \/ P1_Settle
    \/ P1_WaitForAll
    \/ P2_Add
    \/ P2_Then
    \/ P2_Catch
    \/ P2_Finally
    \/ P2_Follow
    \/ P2_AwaitAll
    \/ RC_Call
    \/ RC_TaskSettled
    \/ RC_Next
    \/ RC_Return
    \/ PT_Call
    \/ PT_Then
    \/ PT_Rejected
    \/ RW_Call
    \/ RW_FnSettled
    \/ RW_DelayDone
    \/ EX_RunTasks
    \/ EX_CallbackSettled
    \/ EX_Return
    \/ EX_RetryFailedTasks
    \/ EX_ExecuteTasks
    \/ EX_GetTaskStats
    \/ PE_On
    \/ PE_Emit
    \/ PE_Off
    \/ PE_RemoveAllListeners

Spec == Init /\ [][Next]_vars

\* The runs of the schedulers that run each task once (RequestPool,
\* runConcurrently, paralleTask) in which every task that was started
\* settles in the end and every pending promise reaction is run, whatever
\* the caller does.
Settling == {"RequestPool", "runConcurrently", "paralleTask"}

SettlingInit == Init /\ prog \in Settling

SettlingNext ==
    \/ RP_Add
    \/ RP_Settle
    \/ RC_Call
    \/ RC_TaskSettled
    \/ RC_Next
    \/ RC_Return
    \/ PT_Call
    \/ PT_Then
    \/ PT_Rejected

EverySettles ==
    /\ \A t \in 1..MaxTasks :
          WF_vars(RP_Settle /\ rp.request[t] = "running" /\ rp'.request[t] = "settled")
    /\ WF_vars(RC_TaskSettled)
    /\ WF_vars(RC_Next)
    /\ WF_vars(RC_Return)
    /\ WF_vars(PT_Then \/ PT_Rejected)

SettlingSpec == SettlingInit /\ [][SettlingNext]_vars /\ EverySettles

\* The two AsyncTaskPool classes, with the job queue of the engine running
\* every job it holds: a promise that awaitAll() returned and whose resolver
\* has run is fulfilled.
PoolsInit == Init /\ prog \in Pools

PoolsNext ==
    \/ P1_AddTask
    \/ P1_Settle
    \/ P1_WaitForAll
    \/ P2_Add
    \/ P2_Then
    \/ P2_Catch
    \/ P2_Finally
    \/ P2_Follow
    \/ P2_AwaitAll

PoolsSpec == PoolsInit /\ [][PoolsNext]_vars /\ WF_vars(P2_Follow)

\* ================================================================== claims
\* The array indices of a call.
Indices(n) == 0..(n - 1)

\* Where x first occurs in a log of starts.
FirstAt(log, x) == CHOOSE i \in 1..Len(log) : log[i] = x /\ \A j \in 1..(i - 1) : log[j] # x

\* A log of starts in which the first executions come in submission order:
\* whenever y has started, every x submitted before y started earlier.
Fifo(log) ==
    \A y \in Range(log) : \A x \in 1..(y - 1) :
        x \in Range(log) /\ FirstAt(log, x) < FirstAt(log, y)

\* C1: in RequestPool and in both AsyncTaskPool variants, constructed with a
\* maximum >= 1, the running-task counter is at least 0 and at most the
\* maximum in every reachable state.
C1_CounterWithinBound ==
    /\ (prog = "RequestPool" /\ rp.maxConcurrent >= 1)
          => (0 <= rp.activeCount /\ rp.activeCount <= rp.maxConcurrent)
    /\ (prog = "AsyncTaskPool1" /\ p1.constructed /\ p1.maxConcurrency >= 1)
          => (0 <= p1.runningTasks /\ p1.runningTasks <= p1.maxConcurrency)
    /\ (prog = "AsyncTaskPool2" /\ p2.concurrency >= 1)
          => (0 <= p2.runningCount /\ p2.runningCount <= p2.concurrency)

\* A full pool with work waiting behind it, after a failure and a success.
C1_Witness ==
    /\ prog = "AsyncTaskPool2"
    /\ p2.concurrency = 2
    /\ p2.runningCount = p2.concurrency
    /\ Len(p2.taskQueue) > 0
    /\ p2.fails > 0
    /\ Len(p2.results) > 0

\* C2: after runConcurrently / paralleTask was called with a cap >= 1, the
\* number of tasks called and not yet settled never exceeds the cap nor the
\* length of the array.
C2_InFlightWithinCap ==
    /\ (prog = "runConcurrently" /\ rc.maxConcurrent >= 1)
          => (RC_inFlight(rc) <= rc.maxConcurrent /\ RC_inFlight(rc) <= rc.tasks)
    /\ (prog = "paralleTask" /\ pt.parallelCount >= 1)
          => (PT_inFlight(pt) <= pt.parallelCount /\ PT_inFlight(pt) <= pt.tasks)

\* Two of three tasks in flight under a cap of 2, the middle one settled
\* (rejected) before the first.
C2_Witness ==
    /\ prog = "runConcurrently"
    /\ rc.maxConcurrent = 2
    /\ rc.tasks = 3
    /\ rc.task[0] = "running"
    /\ rc.task[1] = "rejected"
    /\ rc.task[2] = "running"

\* C3: runConcurrently with maxConcurrent >= 1 never rejects; while its
\* promise is pending the call can always go on (a task can settle, a chain
\* can continue, or the call can return); and once resolved, the array has
\* tasks.length entries, entry i being {success: true, data: value of task i}
\* iff task i fulfilled and {success: false, error} iff it rejected.
C3_ResultsPerIndex ==
    (prog = "runConcurrently" /\ rc.maxConcurrent >= 1) =>
        /\ rc.promise.state # "rejected"
        /\ rc.promise.state = "pending"
              => ENABLED (RC_TaskSettled \/ RC_Next \/ RC_Return)
        /\ rc.promise.state = "resolved" =>
              /\ Len(rc.promise.value) = rc.tasks
              /\ \A i \in Indices(rc.tasks) :
                    /\ rc.task[i] \in {"fulfilled", "rejected"}
                    /\ rc.task[i] = "fulfilled"
                          <=> rc.promise.value[i + 1] = [success |-> TRUE, data |-> Val(i)]
                    /\ rc.task[i] = "rejected"
                          <=> rc.promise.value[i + 1] = [success |-> FALSE, error |-> Err(i)]

\* A resolved call of three tasks under a cap of 2 in which the first task
\* rejected and the others fulfilled.
C3_Witness ==
    /\ prog = "runConcurrently"
    /\ rc.maxConcurrent = 2
    /\ rc.tasks = 3
    /\ rc.promise.state = "resolved"
    /\ rc.task[0] = "rejected"
    /\ rc.task[1] = "fulfilled"
    /\ rc.task[2] = "fulfilled"

\* C4: in RequestPool and in both AsyncTaskPool variants, first executions
\* begin in submission order: when a task has started, every task submitted
\* before it has started earlier (so none of them still waits in the queue).
C4_FifoStart ==
    /\ prog = "RequestPool" => Fifo(rp.starts)
    /\ prog = "AsyncTaskPool1" => Fifo(p1.starts)
    /\ prog = "AsyncTaskPool2" => Fifo(p2.starts)

\* Three tasks went through a pool of one slot, the first of them started
\* again after a failure before the third first started.
C4_Witness ==
    /\ prog = "AsyncTaskPool1"
    /\ p1.maxConcurrency = 1
    /\ Len(p1.starts) = 4
    /\ p1.starts[1] = 1
    /\ p1.starts[2] = 2
    /\ p1.starts[3] = 1
    /\ p1.starts[4] = 3

\* The starts so far are base, base+1, ... in this order, at most one task
\* is in flight, and every started task but the last has settled.
OneByOne(starts, state, base, inFlight) ==
    /\ inFlight <= 1
    /\ \A j \in 1..Len(starts) : starts[j] = base + j - 1
    /\ \A j \in 1..(Len(starts) - 1) : state[starts[j]] \notin {"running", "queued", "none"}

\* C5: under a cap of 1, as long as no task has failed, runConcurrently,
\* paralleTask and RequestPool run the tasks one by one in submission order:
\* a task is started only after its predecessor has settled.
C5_CapOneSequential ==
    /\ (prog = "runConcurrently" /\ rc.maxConcurrent = 1
          /\ \A i \in Indices(MaxTasks) : rc.task[i] # "rejected")
          => OneByOne(rc.starts, rc.task, 0, RC_inFlight(rc))
    /\ (prog = "paralleTask" /\ pt.parallelCount = 1
          /\ \A i \in Indices(MaxTasks) : pt.task[i] # "rejected")
          => OneByOne(pt.starts, pt.task, 0, PT_inFlight(pt))
    /\ (prog = "RequestPool" /\ rp.maxConcurrent = 1
          /\ \A t \in 1..MaxTasks : rp.promise[t].state # "rejected")
          => OneByOne(rp.starts, rp.request, 1, rp.activeCount)

\* paralleTask ran three tasks under a cap of 1 and all of them fulfilled.
C5_Witness ==
    /\ prog = "paralleTask"
    /\ pt.parallelCount = 1
    /\ pt.tasks = 3
    /\ pt.starts = <<0, 1, 2>>
    /\ pt.promise.state = "resolved"

\* C6: retryWrapper never invokes fn more than 3 times; it rejects exactly
\* when three invocations failed, with the error of the third; it resolves
\* exactly when invocation k <= 3 was the first to succeed, after k
\* invocations, with the value of that invocation.
C6_ThreeAttempts ==
    prog = "retryWrapper" =>
        /\ rw.calls <= 3
        /\ rw.state = "rejected" <=> rw.outcomes = <<FALSE, FALSE, FALSE>>
        /\ rw.state = "rejected" => (rw.calls = 3 /\ rw.value = Err(3))
        /\ rw.state = "resolved" <=> (rw.outcomes # <<>> /\ rw.outcomes[Len(rw.outcomes)])
        /\ rw.state = "resolved" =>
              /\ rw.calls = Len(rw.outcomes)
              /\ \A k \in 1..(rw.calls - 1) : ~rw.outcomes[k]
              /\ rw.value = Val(rw.calls)

\* fn failed three times and the wrapper rejected.
C6_Witness ==
    /\ prog = "retryWrapper"
    /\ rw.state = "rejected"
    /\ rw.retries = 3

\* C7 as stated: the execution starts of a task of an AsyncTaskPool have a
\* maximum, and a task that has failed that often is given up and not
\* started again.  A task of the model can fail RetryFails times; that no
\* task is started more than RetryFails times is what every maximum from 1
\* to RetryFails allows.
C7_StartsHaveMaximum ==
    /\ prog = "AsyncTaskPool1" => \A t \in 1..MaxTasks : p1.execs[t] <= RetryFails
    /\ prog = "AsyncTaskPool2" => \A t \in 1..MaxTasks : p2.execs[t] <= RetryFails

\* C8: whenever a completion promise is resolved (waitForAll's, any
\* awaitAll's, paralleTask's), nothing runs and nothing waits: the running
\* count is 0, the queue is empty and no task is waiting or running; for
\* paralleTask every task of the array has fulfilled.
C8_ResolvedOnlyWhenDrained ==
    /\ (prog = "AsyncTaskPool1" /\ p1.completion.state # "pending") =>
          /\ p1.completion.state = "resolved"
          /\ p1.runningTasks = 0
          /\ p1.waitingTasks = <<>>
          /\ \A t \in 1..MaxTasks : p1.task[t] \in {"none", "done"}
    /\ prog = "AsyncTaskPool2" =>
          \A w \in 1..MaxWaiters :
              p2.waiter[w].state = "resolved" =>
                  /\ p2.runningCount = 0
                  /\ p2.taskQueue = <<>>
                  /\ \A t \in 1..MaxTasks : p2.task[t] \in {"none", "done"}
                  /\ p2.finalizing = {}
    /\ (prog = "paralleTask" /\ pt.promise.state = "resolved") =>
          /\ pt.finishCount = pt.tasks
          /\ \A i \in Indices(pt.tasks) : pt.task[i] = "fulfilled"

\* An awaitAll() made while two tasks were in the pool resolved with both
\* results, one of the tasks having failed once.
C8_Witness ==
    /\ prog = "AsyncTaskPool2"
    /\ p2.waiter[1].state = "resolved"
    /\ Len(p2.waiter[1].value) = 2
    /\ p2.waiter[1].resolved = 1
    /\ p2.fails = 1

\* C9 as stated: a drained pool (nothing queued, nothing running) leaves no
\* waitForAll()/awaitAll() promise waiting for its answer, so that none
\* needs a further submission to resolve; a pool never submitted to
\* included.  (An awaitAll() promise whose resolver has run has its answer:
\* it is fulfilled by the next job of its own.)
C9_DrainedLeavesNoWaiter ==
    /\ (prog = "AsyncTaskPool1" /\ p1.constructed /\ p1.waiters > 0
          /\ p1.runningTasks = 0 /\ p1.waitingTasks = <<>>)
          => p1.completion.state = "resolved"
    /\ (prog = "AsyncTaskPool2" /\ p2.runningCount = 0 /\ p2.taskQueue = <<>>)
          => \A w \in 1..MaxWaiters :
                p2.waiter[w].state = "pending" => p2.waiter[w].resolved > 0

\* C10 as stated: a submission to a pool that has drained is accepted, that
\* is, no addTask()/add() call ever throws.
C10_SubmissionAfterDrainAccepted ==
    /\ prog = "AsyncTaskPool1" => p1.lastAdd # "threw"
    /\ prog = "AsyncTaskPool2" => p2.lastAdd # "threw"

\* What holds of the waiters of a pool in every state.
WaitersAnsweredOnce ==
    /\ (prog = "AsyncTaskPool1" /\ p1.constructed) =>
          /\ p1.allCompleted <=> p1.completion.state = "resolved"
          /\ p1.completion.settled = (IF p1.allCompleted THEN 1 ELSE 0)
          /\ p1.allCompleted => p1.completion.value = p1.results
    /\ prog = "AsyncTaskPool2" =>
          /\ ~p2.finished =>
                \A w \in 1..p2.waitCalls :
                    /\ p2.waiter[w].state = "pending"
                    /\ p2.waiter[w].resolved = 0
                    /\ w \in Range(p2.pendingResolvers)
          /\ p2.finished =>
                /\ p2.pendingResolvers = <<>>
                /\ \A w \in 1..p2.waitCalls :
                      /\ p2.waiter[w].resolved = 1
                      /\ p2.waiter[w].state \in {"pending", "resolved"}
                      /\ p2.waiter[w].state = "resolved" => p2.waiter[w].value = p2.results

\* C11: the waiters of a pool are all answered by its drain, once and alike.
\* Before the drain every awaitAll() promise is pending with its resolver
\* queued; from the drain on no resolver is left, every promise handed out
\* has been answered exactly once, every fulfilled one holds the one results
\* array, and every answered one is fulfilled in the end.  The
\* completionPromise of waitForAll() is resolved exactly when the pool has
\* drained, once, with the results.
C11_WaitersResolvedOnceAlike ==
    /\ []WaitersAnsweredOnce
    /\ \A w \in 1..MaxWaiters :
          (prog = "AsyncTaskPool2" /\ p2.waiter[w].resolved > 0)
              ~> (prog = "AsyncTaskPool2" /\ p2.waiter[w].state = "resolved")

\* Two awaitAll() calls made while the pool was busy were both answered by
\* the drain, after two tasks.
C11_Witness ==
    /\ prog = "AsyncTaskPool2"
    /\ p2.finished
    /\ p2.waiter[1].queued /\ p2.waiter[1].state = "resolved"
    /\ p2.waiter[2].queued /\ p2.waiter[2].state = "resolved"
    /\ Len(p2.results) = 2

\* C12: a waitForAll()/awaitAll() call on a pool that has drained is
\* answered at once with the results array every fulfilled earlier waiter
\* holds, and it starts nothing: running count, queue, starts and results
\* stay as they are.
C12_AwaitAfterDrainIdempotent ==
    [][ /\ (prog = "AsyncTaskPool1" /\ p1.allCompleted /\ p1'.waiters = p1.waiters + 1) =>
              /\ p1'.completion = p1.completion
              /\ p1'.completion.state = "resolved"
              /\ p1'.completion.value = p1.results
              /\ p1'.runningTasks = p1.runningTasks /\ p1'.waitingTasks = p1.waitingTasks
              /\ p1'.starts = p1.starts /\ p1'.execs = p1.execs /\ p1'.results = p1.results
        /\ (prog = "AsyncTaskPool2" /\ p2.finished /\ p2'.waitCalls = p2.waitCalls + 1) =>
              /\ p2'.waiter[p2'.waitCalls].state = "resolved"
              /\ \A w \in 1..p2'.waitCalls :
                    p2'.waiter[w].state = "resolved" => p2'.waiter[w].value = p2.results
              /\ \A w \in 1..p2.waitCalls : p2'.waiter[w] = p2.waiter[w]
              /\ p2'.runningCount = p2.runningCount /\ p2'.taskQueue = p2.taskQueue
              /\ p2'.starts = p2.starts /\ p2'.execs = p2.execs /\ p2'.results = p2.results ]_vars

\* Two awaitAll() calls, both made after the drain, hold the same two results.
C12_Witness ==
    /\ prog = "AsyncTaskPool2"
    /\ p2.finished
    /\ p2.waitCalls = 2
    /\ ~p2.waiter[1].queued /\ ~p2.waiter[2].queued
    /\ p2.waiter[1].value = p2.waiter[2].value
    /\ Len(p2.waiter[2].value) = 2

\* C13: a rejection costs no slot and stops nothing.  In RequestPool the
\* counter is exactly the number of requests in flight, a request waits only
\* while another runs, and each settled request has settled the promise of
\* its add() once, with its own value or error.  In runConcurrently, as long
\* as a task is left to start, all min(maxConcurrent, tasks.length) chains
\* are alive, and each settled task has its own outcome at its own index.
C13_FailureReleasesSlot ==
    /\ (prog = "RequestPool" /\ rp.maxConcurrent >= 1) =>
          /\ rp.activeCount = Cardinality({t \in 1..MaxTasks : rp.request[t] = "running"})
          /\ \A t \in 1..MaxTasks :
                /\ rp.request[t] = "queued" => \E u \in 1..MaxTasks : rp.request[u] = "running"
                /\ rp.request[t] \in {"queued", "running"} => rp.promise[t].state = "pending"
                /\ rp.request[t] = "settled" =>
                      /\ rp.promise[t].settled = 1
                      /\ \/ rp.promise[t].state = "resolved" /\ rp.promise[t].value = Val(t)
                         \/ rp.promise[t].state = "rejected" /\ rp.promise[t].value = Err(t)
    /\ (prog = "runConcurrently" /\ rc.maxConcurrent >= 1 /\ rc.promise.state # "none") =>
          /\ rc.taskIndex < rc.tasks =>
                Cardinality({w \in 1..MaxTasks : rc.worker[w].pc \in {"task", "next"}})
                    = Min(rc.maxConcurrent, rc.tasks)
          /\ \A i \in Indices(rc.tasks) :
                /\ rc.task[i] = "fulfilled" =>
                      (Len(rc.results) > i /\ rc.results[i + 1] = [success |-> TRUE, data |-> Val(i)])
                /\ rc.task[i] = "rejected" =>
                      (Len(rc.results) > i /\ rc.results[i + 1] = [success |-> FALSE, error |-> Err(i)])

\* In a pool of one slot the first request was rejected, the second, which
\* had been queued, resolved, and the third is running.
C13_Witness ==
    /\ prog = "RequestPool"
    /\ rp.maxConcurrent = 1
    /\ rp.promise[1].state = "rejected"
    /\ rp.promise[2].state = "resolved"
    /\ rp.request[3] = "running"

\* C14: for paralleTask on a non-empty array with parallelCount >= 1, once
\* every started task has settled, every task of the array has been started
\* and the returned promise is resolved, rejections included.  Stated on the
\* quiescent states: nothing in flight means nothing can happen any more.
C14_SettledMeansCompleted ==
    (/\ prog = "paralleTask"
     /\ pt.tasks > 0
     /\ pt.parallelCount >= 1
     /\ pt.promise.state # "none"
     /\ PT_inFlight(pt) = 0)
        => /\ pt.nextIndex = pt.tasks
           /\ pt.promise.state = "resolved"

\* C15: every entry point that takes a concurrency bound fails when the
\* bound is < 1, before any task is queued or started: runConcurrently
\* rejects without a start, the addTask pool is not constructed, and the add
\* pool and RequestPool accept no task.
C15_BoundBelowOneRefused ==
    /\ (prog = "runConcurrently" /\ rc.maxConcurrent < 1 /\ rc.promise.state # "none") =>
          (rc.promise.state = "rejected" /\ rc.starts = <<>>)
    /\ (prog = "AsyncTaskPool1" /\ p1.maxConcurrency < 1) =>
          (~p1.constructed /\ p1.submitted = 0)
    /\ (prog = "AsyncTaskPool2" /\ p2.concurrency < 1) =>
          (p2.submitted = 0 /\ p2.taskQueue = <<>>)
    /\ (prog = "RequestPool" /\ rp.maxConcurrent < 1) =>
          (rp.taskCounter = 0 /\ rp.requestQueue = <<>>)

\* One step of a pool on its queue: the tasks `added` join the tail of the
\* queue q, and the tasks started in the step are a prefix of the result,
\* appended to the starts in that order.
QueueStep(q, st, added, q2, st2) ==
    LET all == q \o added
    IN \E k \in 0..Len(all) :
          /\ q2 = SubSeq(all, k + 1, Len(all))
          /\ st2 = st \o SubSeq(all, 1, k)

\* A step of a pool in which an execution failed (fails grew): the failed
\* task t, which was running, is the one task that joins the queue.
FailStep(task, execs, q, st, task2, execs2, q2, st2) ==
    \E t \in 1..MaxTasks :
        /\ task[t] = "running"
        /\ task2[t] # "done"
        /\ task2[t] = "running" => execs2[t] = execs[t] + 1
        /\ QueueStep(q, st, <<t>>, q2, st2)

\* C16: in both AsyncTaskPool variants a task that fails joins the tail of
\* the waiting queue, and the queue is served from its head only: the task
\* is not started again before every task that waited at its failure.
C16_FailedTaskGoesToTail ==
    [][/\ prog = "AsyncTaskPool1" =>
            IF p1'.fails = p1.fails + 1
            THEN FailStep(p1.task, p1.execs, p1.waitingTasks, p1.starts,
                          p1'.task, p1'.execs, p1'.waitingTasks, p1'.starts)
            ELSE \E added \in {<<>>, <<p1.submitted + 1>>} :
                    QueueStep(p1.waitingTasks, p1.starts, added, p1'.waitingTasks, p1'.starts)
       /\ prog = "AsyncTaskPool2" =>
            IF p2'.fails = p2.fails + 1
            THEN FailStep(p2.task, p2.execs, p2.taskQueue, p2.starts,
                          p2'.task, p2'.execs, p2'.taskQueue, p2'.starts)
            ELSE \E added \in {<<>>, <<p2.submitted + 1>>} :
                    QueueStep(p2.taskQueue, p2.starts, added, p2'.taskQueue, p2'.starts)
      ]_vars

\* In a pool of one slot task 1 failed while tasks 2 and 3 waited, and was
\* started again only after both.
C16_Witness ==
    /\ prog = "AsyncTaskPool1"
    /\ p1.maxConcurrency = 1
    /\ p1.fails = 1
    /\ p1.starts = <<1, 2, 3, 1>>

\* No slot is idle while work waits.
NoIdleSlot(queue, running, max) == ~(Len(queue) > 0 /\ running < max)

\* C17: whenever a dispatch pass has finished, no slot is idle while work
\* waits.  Every step of RequestPool (add, settlement) and of the addTask
\* pool (addTask, settlement) ends with a dispatch pass; in the add pool the
\* passes are at the end of add() and of the finally reaction.
C17_NoIdleSlotAfterDispatch ==
    [][/\ prog = "RequestPool" =>
            NoIdleSlot(rp'.requestQueue, rp'.activeCount, rp'.maxConcurrent)
       /\ prog = "AsyncTaskPool1" =>
            NoIdleSlot(p1'.waitingTasks, p1'.runningTasks, p1'.maxConcurrency)
       /\ (prog = "AsyncTaskPool2"
           /\ (p2'.submitted # p2.submitted \/ p2'.runningCount < p2.runningCount)) =>
            NoIdleSlot(p2'.taskQueue, p2'.runningCount, p2'.concurrency)
      ]_vars

\* A full RequestPool with a request waiting, one request already settled:
\* the settlement was followed by a dispatch that took the freed slot.
C17_Witness ==
    /\ prog = "RequestPool"
    /\ rp.maxConcurrent = 1
    /\ rp.activeCount = 1
    /\ Len(rp.requestQueue) > 0
    /\ \E t \in 1..MaxTasks : rp.request[t] = "settled"

\* A results array holds one result of each of the first n submitted tasks
\* and nothing else.
OneResultEach(results, n) ==
    /\ Len(results) = n
    /\ Range(results) = {Val(t) : t \in 1..n}

\* C19: when the completion of an AsyncTaskPool resolves, the resolved array
\* has one result of every submitted task: as many entries as tasks were
\* submitted, none twice, failed executions leaving no entry.
C19_ResolvedResultsComplete ==
    /\ (prog = "AsyncTaskPool1" /\ p1.completion.state = "resolved") =>
          OneResultEach(p1.completion.value, p1.submitted)
    /\ prog = "AsyncTaskPool2" =>
          \A w \in 1..MaxWaiters :
              p2.waiter[w].state = "resolved" => OneResultEach(p2.waiter[w].value, p2.submitted)

\* The completion resolved with three results after one execution failed.
C19_Witness ==
    /\ prog = "AsyncTaskPool1"
    /\ p1.completion.state = "resolved"
    /\ Len(p1.completion.value) = 3
    /\ p1.fails = 1

\* C18: in the task executor used through runTasks and retryFailedTasks
\* (the caller makes no executeTasks call of its own), whenever one of these
\* calls returns, every index of the task array is a key of exactly one of
\* state.successResults and state.failedTasks.
C18_IndexInExactlyOneMap ==
    [][(prog = "taskExecutor" /\ ex.executes = 0 /\ ex'.calls = ex.calls + 1) =>
          \A i \in 0..(Len(ex.tasks) - 1) :
              MapHas(ex'.heap[ex.state.successResults], i)
                  # MapHas(ex'.heap[ex.state.failedTasks], i)
      ]_vars

\* The Maps a returned statistics object holds are as they were returned.
SnapshotKept(h, h2, stat) ==
    /\ h2[stat.successResults] = h[stat.successResults]
    /\ h2[stat.failedTasks] = h[stat.failedTasks]

\* C20: getTaskStats returns a snapshot: no step of the executor changes a
\* Map of a statistics object returned before it, and the two totals of
\* every returned object are the sizes of its Maps.
C20_StatsAreSnapshot ==
    [][prog = "taskExecutor" =>
          /\ \A k \in 1..Len(ex.stats) : SnapshotKept(ex.heap, ex'.heap, ex.stats[k])
          /\ \A k \in 1..Len(ex'.stats) :
                /\ ex'.stats[k].totalSuccess = Len(ex'.heap[ex'.stats[k].successResults])
                /\ ex'.stats[k].totalFailed = Len(ex'.heap[ex'.stats[k].failedTasks])
      ]_vars

\* Statistics taken with a failed task and a successful one; since then a
\* retry has emptied state.failedTasks and added to state.successResults.
C20_Witness ==
    /\ prog = "taskExecutor"
    /\ \E k \in 1..Len(ex.stats) :
          /\ ex.stats[k].totalFailed = 1
          /\ ex.stats[k].totalSuccess = 1
          /\ ex.heap[ex.stats[k].failedTasks] # <<>>
          /\ ex.heap[ex.state.failedTasks] = <<>>
          /\ Len(ex.heap[ex.state.successResults]) = 2

\* The array of an event: higher priorities first, and among equal
\* priorities the earlier registration first.
ByPriority(arr) ==
    \A i, j \in 1..Len(arr) :
        i < j => \/ arr[i].priority > arr[j].priority
                 \/ arr[i].priority = arr[j].priority /\ arr[i].reg < arr[j].reg

\* The listeners registered for an event, none if the Map has no entry.
Registered(m, event) == IF MapHas(m, event) THEN MapGet(m, event) ELSE <<>>

\* The invocations of an emit over the array arr: the objects of arr from
\* the first one on, in the order of the array, up to the first invocation
\* that called skipRemaining, or to the end when none did.
InvokedInOrder(arr, invoked) ==
    /\ Len(invoked) <= Len(arr)
    /\ \A i \in 1..Len(invoked) :
          /\ invoked[i].reg = arr[i].reg
          /\ invoked[i].listener = arr[i].listener
          /\ invoked[i].called => i = Len(invoked)
    /\ Len(invoked) < Len(arr) => (invoked # <<>> /\ invoked[Len(invoked)].called)

\* C21: every emit(event) invokes the listeners registered for the event in
\* non-increasing priority order, equal priorities in registration order,
\* from the highest-priority one on whatever an earlier emit did, and stops
\* after the first listener that calls skipRemaining; it changes no
\* registration.
C21_EmitByPriorityUntilSkip ==
    [][(prog = "PriorityEventEmitter" /\ Len(pe'.skipped) = Len(pe.skipped) + 1) =>
          /\ pe'.event \in Events
          /\ ByPriority(Registered(pe.listeners, pe'.event))
          /\ InvokedInOrder(Registered(pe.listeners, pe'.event), pe'.invoked)
          /\ pe'.listeners = pe.listeners
      ]_vars

\* The second emit of an emitter has invoked three listeners, the first of
\* a higher priority than the two others, which are of equal priority and
\* not registered first; the emit before it was cut short by skipRemaining.
C21_Witness ==
    /\ prog = "PriorityEventEmitter"
    /\ pe.skipped = <<TRUE, FALSE>>
    /\ Len(pe.invoked) = 3
    /\ pe.invoked[1].priority > pe.invoked[2].priority
    /\ pe.invoked[2].priority = pe.invoked[3].priority
    /\ pe.invoked[1].reg > pe.invoked[2].reg

\* The starts are the indices 0, 1, 2, ... in that order, each once.
InIndexOrder(starts) == \A k \in 1..Len(starts) : starts[k] = k - 1

\* C22: under a bound >= 1, runConcurrently and paralleTask start the tasks
\* of the array in increasing index order, each once, and skip none: when
\* runConcurrently has nothing left to do (no task in flight, no chain about
\* to call next), every task has been started, and the same holds for
\* paralleTask when no task has rejected.
C22_EveryTaskStartedOnce ==
    /\ (prog = "runConcurrently" /\ rc.maxConcurrent >= 1) =>
          /\ InIndexOrder(rc.starts)
          /\ Len(rc.starts) <= rc.tasks
          /\ (/\ rc.promise.state # "none"
              /\ \A w \in 1..MaxTasks : rc.worker[w].pc \in {"none", "done"})
                => Len(rc.starts) = rc.tasks
    /\ (prog = "paralleTask" /\ pt.parallelCount >= 1) =>
          /\ InIndexOrder(pt.starts)
          /\ Len(pt.starts) <= pt.tasks
          /\ (/\ pt.promise.state # "none"
              /\ PT_inFlight(pt) = 0
              /\ \A i \in Indices(MaxTasks) : pt.task[i] # "rejected")
                => (Len(pt.starts) = pt.tasks /\ pt.promise.state = "resolved")

\* paralleTask has run three tasks two at a time, all fulfilled, and has
\* resolved.
C22_Witness ==
    /\ prog = "paralleTask"
    /\ pt.parallelCount = 2
    /\ pt.tasks = 3
    /\ pt.starts = <<0, 1, 2>>
    /\ pt.promise.state = "resolved"

\* The promise of add() for request t is as the request is: none before
\* add(), pending while the request waits or runs, and settled once, with
\* the request's own value or error, when the request has settled.
PromiseFollowsRequest(t) ==
    /\ rp.request[t] = "none" => rp.promise[t].state = "none"
    /\ rp.request[t] \in {"queued", "running"} =>
          (rp.promise[t].state = "pending" /\ rp.promise[t].settled = 0)
    /\ rp.request[t] = "settled" =>
          /\ rp.promise[t].settled = 1
          /\ t \in Range(rp.starts)
          /\ \/ rp.promise[t].state = "resolved" /\ rp.promise[t].value = Val(t)
             \/ rp.promise[t].state = "rejected" /\ rp.promise[t].value = Err(t)

\* C23: in a RequestPool with maxConcurrent >= 1 whose started requests all
\* settle in the end, no request starves: every request passed to add() is
\* started and its promise settles, once, with the request's own outcome,
\* and not before the request has been started.
C23_NoStarvation ==
    \A t \in 1..MaxTasks :
        /\ []((prog = "RequestPool" /\ rp.maxConcurrent >= 1) => PromiseFollowsRequest(t))
        /\ (prog = "RequestPool" /\ rp.maxConcurrent >= 1 /\ rp.request[t] = "queued")
              ~> (prog = "RequestPool" /\ t \in Range(rp.starts))
        /\ (prog = "RequestPool" /\ rp.maxConcurrent >= 1
                /\ rp.request[t] \in {"queued", "running"})
              ~> (prog = "RequestPool" /\ rp.promise[t].settled = 1)

\* In a pool of two slots the third request waited, was started after the
\* rejection of another and has resolved.
C23_Witness ==
    /\ prog = "RequestPool"
    /\ rp.maxConcurrent = 2
    /\ rp.starts = <<1, 2, 3>>
    /\ rp.promise[3].state = "resolved"
    /\ \E t \in 1..2 : rp.promise[t].state = "rejected"

\* C24: retryFailedTasks re-executes only the tasks of state.failedTasks:
\* in the task executor used through runTasks and retryFailedTasks (the
\* caller makes no executeTasks call of its own), no callback that a
\* retryFailedTasks call starts has the index of an entry of
\* state.successResults: no index that has succeeded is executed again, and
\* no entry of state.successResults can be written over by the retry.
C24_RetryOnlyFailed ==
    [][(prog = "taskExecutor" /\ ex.executes = 0 /\ ex'.retries = ex.retries + 1) =>
          LET batch == ex'.pending[Len(ex'.pending)].batch
          IN \A j \in 1..Len(batch) :
                ~MapHas(ex'.heap[ex.state.successResults], batch[j].index)
      ]_vars

====
